---- MODULE Spec2Model ----
(***************************************************************************)
(* Push-propagation logic gates (Assignment05.py): Input/Output signals,   *)
(* NOT/AND/OR/XOR gates, the class-level cost and name attributes, the     *)
(* Circuit linked list, and the full_adder composition.                    *)
(*                                                                         *)
(* A signal's `_value` attribute is absent until its first write; the      *)
(* absent attribute is the value "Unset".  Python booleans are the strings *)
(* "True" / "False"; the other client values are the ints 0 and 1.         *)
(***************************************************************************)
EXTENDS Integers, Sequences, FiniteSets, TLC

\* ---------------------------------------------------------------- bounds
NumGates == 2          \* gates of the wiring / circuit specifications
MaxConns == 2          \* connections established in total
NumCircuits == 2       \* Circuit objects of the circuit specification

\* ------------------------------------------------------ program constants
COST_MULTIPLIER == 10
UnaryComponents == 2
BinaryComponents == 3
AdderGates == 5
None == 0

Slots == 1..(IF NumGates > AdderGates THEN NumGates ELSE AdderGates)
Circuits == 1..NumCircuits
Kinds == {"NOT", "AND", "OR", "XOR"}
PyBools == {"True", "False"}
PyValues == PyBools \cup {"1", "0"}
Gates == 1..NumGates

\* Depth of nested Output setters after which the interpreter raises
\* RecursionError.  A cascade through acyclic wiring nests at most one setter
\* per gate, so this limit is only ever hit on a feedback loop.
RecursionLimit == 2 * NumGates + 2

VARIABLES
    kind,       \* kind[g]: "none" until gate g is constructed, then its class
    inVal,      \* inVal[g][k]: Input._value of input k of gate g
    outVal,     \* outVal[g]: Output._value of gate g
    conn,       \* conn[g]: Output._connections of gate g, a sequence of inputs <<h, k>>
    fault,      \* "none", or the exception / hang that ended the program
    op,         \* the last top-level call
    trace,      \* the signal writes made during the last top-level call, in order:
                \* <<"in", g, k, v>> for input k of gate g, <<"out", g, 0, v>> for g's output
    costClass,  \* CostMixin._cost (class attribute), None before any construction
    nameClass,  \* LogicGate._name (class attribute): the gate whose name was passed last
    nextAttr,   \* nextAttr[g]: instance attribute g._next, None when absent
    head,       \* head[c]: Circuit.head
    cost,       \* cost[c]: Circuit._cost, None before the first add
    addLog,     \* addLog[c]: the gates passed to c.add, in call order (history)
    pc,         \* full_adder: the next line to run (0 outside full_adder)
    args,       \* full_adder: <<a, b, ci>>
    result      \* full_adder: the returned tuple <<sum value, carry value, cost>>

vars == <<kind, inVal, outVal, conn, fault, op, trace, costClass, nameClass,
          nextAttr, head, cost, addLog, pc, args, result>>

circVars == <<costClass, nameClass, nextAttr, head, cost, addLog>>
adderVars == <<pc, args, result>>

\* ------------------------------------------------------------ pure helpers
\* bool(value)
PyBool(v) == IF v \in {"True", "1"} THEN "True" ELSE "False"

\* not value
PyNot(v) == IF PyBool(v) = "True" THEN "False" ELSE "True"

\* x and y: the first operand when it is falsy, else the second
PyAnd(x, y) == IF PyBool(x) = "False" THEN x ELSE y

\* x or y: the first operand when it is truthy, else the second
PyOr(x, y) == IF PyBool(x) = "True" THEN x ELSE y

\* x != y
PyNe(x, y) == IF x # y THEN "True" ELSE "False"

IsUnary(k) == k = "NOT"
IsBinary(k) == k \in {"AND", "OR", "XOR"}

\* The Input objects a gate of class k owns
Ports(k) == IF IsUnary(k) THEN {0} ELSE IF IsBinary(k) THEN {0, 1} ELSE {}

Constructed == {g \in Slots : kind[g] # "none"}

\* CostMixin.__init__: COST_MULTIPLIER * number_of_components ** 2
CostOf(n) == COST_MULTIPLIER * (n * n)

\* the number_of_components each constructor passes
Components(k) == IF IsUnary(k) THEN UnaryComponents ELSE BinaryComponents

\* input <<g, k>> is in the connection list of src's output
Connected(cn, src, g, k) == \E n \in 1..Len(cn[src]) : cn[src][n] = <<g, k>>

\* ------------------------------------------------------------- propagation
\* The signal state threaded through one top-level call.
Sig(iv, ov, cn) == [in |-> iv, out |-> ov, conn |-> cn, trace |-> <<>>, fault |-> "none"]

RECURSIVE InputSet(_, _, _, _)
RECURSIVE Evaluate(_, _, _)
RECURSIVE OutputSet(_, _, _, _)
RECURSIVE Fanout(_, _, _, _)

\* A setter that takes evaluation for initialisation: the owner is evaluated
\* only on the input's first write.
InputSetNoReeval(S, i, v, d) ==
    IF S.fault # "none" THEN S
    ELSE LET S1 == [S EXCEPT !.in[i[1]][i[2]] = PyBool(v),
                             !.trace = Append(@, <<"in", i[1], i[2], PyBool(v)>>)]
         IN  IF S.in[i[1]][i[2]] = "Unset" THEN Evaluate(S1, i[1], d) ELSE S1

\* A setter that stores the value in every input of the owner.
InputSetAll(S, i, v, d) ==
    IF S.fault # "none" THEN S
    ELSE Evaluate([S EXCEPT !.in[i[1]] = [k \in {0, 1} |-> PyBool(v)],
                            !.trace = Append(@, <<"in", i[1], i[2], PyBool(v)>>)], i[1], d)

\* A setter with change detection: the owner is evaluated only when the stored
\* value changes.
InputSetIfChanged(S, i, v, d) ==
    IF S.fault # "none" THEN S
    ELSE LET S1 == [S EXCEPT !.in[i[1]][i[2]] = PyBool(v),
                             !.trace = Append(@, <<"in", i[1], i[2], PyBool(v)>>)]
         IN  IF S.in[i[1]][i[2]] = PyBool(v) THEN S1 ELSE Evaluate(S1, i[1], d)

\* Input.value setter: store bool(value), then owner.evaluate()
InputSet(S, i, v, d) ==
    IF S.fault # "none" THEN S
    ELSE Evaluate([S EXCEPT !.in[i[1]][i[2]] = PyBool(v),
                            !.trace = Append(@, <<"in", i[1], i[2], PyBool(v)>>)], i[1], d)

\* try: ... except AttributeError: pass
CatchAttributeError(S) == IF S.fault = "AttributeError" THEN [S EXCEPT !.fault = "none"] ELSE S

NotEvaluate(S, g, d) ==
    IF S.in[g][0] = "Unset" THEN [S EXCEPT !.fault = "AttributeError"]
    ELSE OutputSet(S, g, PyNot(S.in[g][0]), d)

\* An XOR gate that computes `==`.
XorEvaluateEq(S, g, d) ==
    IF S.in[g][0] = "Unset" \/ S.in[g][1] = "Unset" THEN S
    ELSE CatchAttributeError(OutputSet(S, g, PyNot(PyNe(S.in[g][0], S.in[g][1])), d))

\* An AND gate that computes `or`.
AndEvaluateOr(S, g, d) ==
    IF S.in[g][0] = "Unset" \/ S.in[g][1] = "Unset" THEN S
    ELSE CatchAttributeError(OutputSet(S, g, PyOr(S.in[g][0], S.in[g][1]), d))

AndEvaluate(S, g, d) ==
    IF S.in[g][0] = "Unset" THEN S
    ELSE IF PyBool(S.in[g][0]) = "False" THEN CatchAttributeError(OutputSet(S, g, S.in[g][0], d))
    ELSE IF S.in[g][1] = "Unset" THEN S
    ELSE CatchAttributeError(OutputSet(S, g, PyAnd(S.in[g][0], S.in[g][1]), d))

OrEvaluate(S, g, d) ==
    IF S.in[g][0] = "Unset" THEN S
    ELSE IF PyBool(S.in[g][0]) = "True" THEN CatchAttributeError(OutputSet(S, g, S.in[g][0], d))
    ELSE IF S.in[g][1] = "Unset" THEN S
    ELSE CatchAttributeError(OutputSet(S, g, PyOr(S.in[g][0], S.in[g][1]), d))

XorEvaluate(S, g, d) ==
    IF S.in[g][0] = "Unset" \/ S.in[g][1] = "Unset" THEN S
    ELSE CatchAttributeError(OutputSet(S, g, PyNe(S.in[g][0], S.in[g][1]), d))

\* gate.evaluate(), dispatched on the gate's class
Evaluate(S, g, d) ==
    IF S.fault # "none" THEN S
    ELSE CASE kind[g] = "NOT" -> NotEvaluate(S, g, d)
           [] kind[g] = "AND" -> AndEvaluate(S, g, d)
           [] kind[g] = "OR"  -> OrEvaluate(S, g, d)
           [] kind[g] = "XOR" -> XorEvaluate(S, g, d)

\* An Output setter that stores the value and tells no connection.
OutputSetNoPush(S, g, v, d) ==
    IF S.fault # "none" THEN S
    ELSE [S EXCEPT !.out[g] = PyBool(v), !.trace = Append(@, <<"out", g, 0, PyBool(v)>>)]

\* Output.value setter: store bool(value), then write every connection in order
OutputSet(S, g, v, d) ==
    IF S.fault # "none" THEN S
    ELSE IF d >= RecursionLimit THEN [S EXCEPT !.fault = "RecursionError"]
    ELSE Fanout([S EXCEPT !.out[g] = PyBool(v),
                          !.trace = Append(@, <<"out", g, 0, PyBool(v)>>)], g, 1, d + 1)

\* A fan-out whose loop never moves on from the connection it started with.
FanoutStuck(S, g, idx, d) ==
    IF S.fault # "none" \/ idx > Len(S.conn[g]) THEN S
    ELSE [InputSet(S, S.conn[g][idx], S.out[g], d) EXCEPT !.fault = "hang"]

\* A fan-out that walks the connection list from its end.
RECURSIVE FanoutReversed(_, _, _, _)
FanoutReversed(S, g, idx, d) ==
    IF S.fault # "none" \/ idx > Len(S.conn[g]) THEN S
    ELSE FanoutReversed(InputSet(S, S.conn[g][Len(S.conn[g]) + 1 - idx], S.out[g], d),
                        g, idx + 1, d)

\* for connection in self._connections: connection.value = self.value
Fanout(S, g, idx, d) ==
    IF S.fault # "none" \/ idx > Len(S.conn[g]) THEN S
    ELSE Fanout(InputSet(S, S.conn[g][idx], S.out[g], d), g, idx + 1, d)

\* A connect that appends without looking for the input in the list.
ConnectSigDup(S, g, i) ==
    LET S1 == [S EXCEPT !.conn[g] = Append(@, i)]
    IN  IF S1.out[g] = "Unset" THEN S1
        ELSE CatchAttributeError(InputSet(S1, i, S1.out[g], 0))

\* A connect that records the connection and pushes nothing.
ConnectSigNoPush(S, g, i) ==
    IF Connected(S.conn, g, i[1], i[2]) THEN S
    ELSE [S EXCEPT !.conn[g] = Append(@, i)]

\* Output.connect(input)
ConnectSig(S, g, i) ==
    LET S1 == IF Connected(S.conn, g, i[1], i[2]) THEN S
              ELSE [S EXCEPT !.conn[g] = Append(@, i)]
    IN  IF S1.out[g] = "Unset" THEN S1
        ELSE CatchAttributeError(InputSet(S1, i, S1.out[g], 0))

NoOp == [type |-> "none", gate |-> 0, port |-> 0, src |-> 0, dup |-> FALSE, circ |-> 0]

RECURSIVE SumLen(_, _)
SumLen(f, n) == IF n = 0 THEN 0 ELSE Len(f[n]) + SumLen(f, n - 1)

\* connections established so far
TotalConns == SumLen(conn, NumGates)

\* gate.input<k>.value = v, as a top-level call
Write(g, k, v) ==
    /\ fault = "none"
    /\ k \in Ports(kind[g])
    /\ LET R == InputSet(Sig(inVal, outVal, conn), <<g, k>>, v, 0)
       IN  /\ inVal' = R.in
           /\ outVal' = R.out
           /\ trace' = R.trace
           /\ fault' = R.fault
    /\ op' = [NoOp EXCEPT !.type = "write", !.gate = g, !.port = k]
    /\ UNCHANGED <<kind, conn, circVars>>

\* src.output.connect(gate.input<k>), as a top-level call
Wire(src, g, k) ==
    /\ fault = "none"
    /\ kind[src] # "none"
    /\ k \in Ports(kind[g])
    /\ LET dup == Connected(conn, src, g, k)
           R == ConnectSig(Sig(inVal, outVal, conn), src, <<g, k>>)
       IN  /\ inVal' = R.in
           /\ outVal' = R.out
           /\ conn' = R.conn
           /\ trace' = R.trace
           /\ fault' = R.fault
           /\ op' = [NoOp EXCEPT !.type = "connect", !.gate = g, !.port = k, !.src = src,
                                 !.dup = dup]
    /\ UNCHANGED <<kind, circVars>>

\* a client writes an input
ClientWrite(g, k, v) ==
    /\ pc = 0
    /\ Write(g, k, v)
    /\ UNCHANGED adderVars

\* a client connects an output to an input
Connect(src, g, k) ==
    /\ pc = 0
    /\ Connected(conn, src, g, k) \/ TotalConns < MaxConns
    /\ Wire(src, g, k)
    /\ UNCHANGED adderVars

\* ---------------------------------------------------------------- circuits
\* gate.cost: no gate has a _cost of its own (the constructors call
\* CostMixin.__init__ on the class), so the read finds CostMixin._cost
GateCost(g, cc) == cc

\* gate.name: likewise LogicGate._name
GateName(g, nc) == nc

\* gate.next: the instance's _next, else the class's LogicGate._next = None
GateNext(nx, g) == nx[g]

\* while last_entry.next: last_entry = last_entry.next
\* None when the loop never ends: after as many steps as there are gates the
\* walk is on a node it has left before, and no next changes during the walk.
RECURSIVE LastEntry(_, _, _)
LastEntry(nx, e, fuel) ==
    IF GateNext(nx, e) = None THEN e
    ELSE IF fuel = 0 THEN None
    ELSE LastEntry(nx, GateNext(nx, e), fuel - 1)

\* The circuit state threaded through one call of add.
Circ(hd, cs, nx) == [head |-> hd, cost |-> cs, next |-> nx, fault |-> "none"]

\* Circuit.add(gate)
Add(C, c, g, cc) ==
    IF C.head[c] = None
    THEN [C EXCEPT !.head[c] = g, !.cost[c] = GateCost(g, cc)]
    ELSE LET last == LastEntry(C.next, C.head[c], Cardinality(Slots))
         IN  IF last = None THEN [C EXCEPT !.fault = "hang"]
             ELSE [C EXCEPT !.next[last] = g, !.cost[c] = @ + GateCost(g, cc)]

\* XxxGate(name, circuit) with name = g, as a top-level call; c = None for no circuit
Build(g, k, c) ==
    /\ fault = "none"
    /\ kind[g] = "none"
    /\ kind' = [kind EXCEPT ![g] = k]
    /\ costClass' = CostOf(Components(k))
    /\ nameClass' = g
    /\ LET R == IF c = None THEN Circ(head, cost, nextAttr)
                ELSE Add(Circ(head, cost, nextAttr), c, g, costClass')
       IN  /\ head' = R.head
           /\ cost' = R.cost
           /\ nextAttr' = R.next
           /\ fault' = R.fault
    /\ addLog' = IF c = None THEN addLog ELSE [addLog EXCEPT ![c] = Append(@, g)]
    /\ op' = [NoOp EXCEPT !.type = "construct", !.gate = g, !.circ = c]
    /\ UNCHANGED <<inVal, outVal, conn, trace>>

\* a client constructs the next gate
Construct(g, k, c) ==
    /\ pc = 0
    /\ g = Cardinality(Constructed) + 1
    /\ Build(g, k, c)
    /\ UNCHANGED adderVars

\* a client calls circuit.add(gate)
CircuitAdd(c, g) ==
    /\ pc = 0
    /\ fault = "none"
    /\ kind[g] # "none"
    /\ LET R == Add(Circ(head, cost, nextAttr), c, g, costClass)
       IN  /\ head' = R.head
           /\ cost' = R.cost
           /\ nextAttr' = R.next
           /\ fault' = R.fault
    /\ addLog' = [addLog EXCEPT ![c] = Append(@, g)]
    /\ op' = [NoOp EXCEPT !.type = "add", !.gate = g, !.circ = c]
    /\ UNCHANGED <<kind, inVal, outVal, conn, trace, costClass, nameClass, adderVars>>

NoSignals == [g \in Slots |-> [k \in {0, 1} |-> "Unset"]]

\* NumCircuits empty circuits and no gate.
InitCircuit ==
    /\ kind = [g \in Slots |-> "none"]
    /\ inVal = NoSignals
    /\ outVal = [g \in Slots |-> "Unset"]
    /\ conn = [g \in Slots |-> <<>>]
    /\ fault = "none"
    /\ op = NoOp
    /\ trace = <<>>
    /\ costClass = None
    /\ nameClass = None
    /\ nextAttr = [g \in Slots |-> None]
    /\ head = [c \in Circuits |-> None]
    /\ cost = [c \in Circuits |-> None]
    /\ addLog = [c \in Circuits |-> <<>>]
    /\ pc = 0
    /\ args = <<"False", "False", "False">>
    /\ result = <<"Unset", "Unset", None>>

NextCircuit ==
    \/ \E g \in Gates, k \in Kinds, c \in Circuits \cup {None} : Construct(g, k, c)
    \/ \E c \in Circuits, g \in Gates : CircuitAdd(c, g)

\* Clients that construct gates and fill circuits.
SpecCircuit == InitCircuit /\ [][NextCircuit]_vars


\* The first NumGates gates constructed in slot order, none given a circuit.
Init ==
    /\ kind \in {f \in [Slots -> Kinds \cup {"none"}] :
                    \A g \in Slots : (f[g] # "none") <=> (g <= NumGates)}
    /\ inVal = NoSignals
    /\ outVal = [g \in Slots |-> "Unset"]
    /\ conn = [g \in Slots |-> <<>>]
    /\ fault = "none"
    /\ op = NoOp
    /\ trace = <<>>
    /\ costClass = CostOf(Components(kind[NumGates]))
    /\ nameClass = NumGates
    /\ nextAttr = [g \in Slots |-> None]
    /\ head = [c \in Circuits |-> None]
    /\ cost = [c \in Circuits |-> None]
    /\ addLog = [c \in Circuits |-> <<>>]
    /\ pc = 0
    /\ args = <<"False", "False", "False">>
    /\ result = <<"Unset", "Unset", None>>

\* In wiring cn, gate a feeds gate b: some input of b is connected to a's output.
Feeds(cn, a, b) == \E n \in 1..Len(cn[a]) : cn[a][n][1] = b

\* In wiring cn, b is a or lies downstream of a through at most n connections.
RECURSIVE Reaches(_, _, _, _)
Reaches(cn, a, b, n) ==
    \/ a = b
    \/ n > 0 /\ \E m \in Slots : Feeds(cn, a, m) /\ Reaches(cn, m, b, n - 1)

\* In wiring cn, gate g lies on a feedback loop.
OnLoop(cn, g) == \E m \in Slots : Feeds(cn, g, m) /\ Reaches(cn, m, g, Cardinality(Slots))

\* The wiring has no feedback loop.
Acyclic == \A g \in Slots : ~OnLoop(conn, g)

\* a client that never closes a feedback loop
ConnectForward(src, g, k) ==
    /\ kind[src] # "none"
    /\ ~Reaches(conn, g, src, Cardinality(Slots))
    /\ Connect(src, g, k)

Next ==
    \/ \E g \in Gates, k \in {0, 1}, v \in PyValues : ClientWrite(g, k, v)
    \/ \E src \in Gates, g \in Gates, k \in {0, 1} : ConnectForward(src, g, k)

\* Clients that wire without feedback loops.
Spec == Init /\ [][Next]_vars

NextLoop ==
    \/ \E g \in Gates, k \in {0, 1}, v \in PyBools : ClientWrite(g, k, v)
    \/ \E src \in Gates, g \in Gates, k \in {0, 1} : Connect(src, g, k)

\* Clients that wire anything to anything.
SpecLoop == Init /\ [][NextLoop]_vars

\* gate.evaluate(), as a top-level call
ClientEvaluate(g) ==
    /\ pc = 0
    /\ fault = "none"
    /\ kind[g] # "none"
    /\ LET R == Evaluate(Sig(inVal, outVal, conn), g, 0)
       IN  /\ inVal' = R.in
           /\ outVal' = R.out
           /\ trace' = R.trace
           /\ fault' = R.fault
    /\ op' = [NoOp EXCEPT !.type = "evaluate", !.gate = g]
    /\ UNCHANGED <<kind, conn, circVars, adderVars>>

NextEvaluate ==
    \/ \E g \in Gates, k \in {0, 1}, v \in PyBools : ClientWrite(g, k, v)
    \/ \E src \in Gates, g \in Gates, k \in {0, 1} : ConnectForward(src, g, k)
    \/ \E g \in Gates : ClientEvaluate(g)

\* Clients that wire without feedback loops and also call evaluate themselves.
SpecEvaluate == Init /\ [][NextEvaluate]_vars

\* -------------------------------------------------------------- full_adder
\* The gates of full_adder, in construction order.
Xor1 == 1
Xor2 == 2
And1 == 3
And2 == 4
OrG == 5
AdderCircuit == 1
AdderDone == 18

\* full_adder(a, b, ci), one line of its body (lines 237 to 253) per step
AdderStep ==
    /\ pc \in 1..(AdderDone - 1)
    /\ fault = "none"
    /\ LET a == args[1]
           b == args[2]
           ci == args[3]
       IN  CASE pc = 1 -> UNCHANGED <<kind, inVal, outVal, conn, fault, op, trace, circVars>>
             [] pc = 2 -> Build(Xor1, "XOR", AdderCircuit)
             [] pc = 3 -> Build(Xor2, "XOR", AdderCircuit)
             [] pc = 4 -> Write(Xor1, 1, a)
             [] pc = 5 -> Write(Xor1, 0, b)
             [] pc = 6 -> Wire(Xor1, Xor2, 0)
             [] pc = 7 -> Write(Xor2, 1, ci)
             [] pc = 8 -> Build(And1, "AND", AdderCircuit)
             [] pc = 9 -> Build(And2, "AND", AdderCircuit)
             [] pc = 10 -> Write(And1, 0, ci)
             [] pc = 11 -> Wire(Xor1, And1, 1)
             [] pc = 12 -> Write(And2, 0, a)
             [] pc = 13 -> Write(And2, 1, b)
             [] pc = 14 -> Build(OrG, "OR", AdderCircuit)
             [] pc = 15 -> Wire(And1, OrG, 0)
             [] pc = 16 -> Wire(And2, OrG, 1)
             [] pc = 17 -> /\ fault' = IF outVal[OrG] = "Unset" THEN "AttributeError" ELSE "none"
                           /\ UNCHANGED <<kind, inVal, outVal, conn, op, trace, circVars>>
    /\ pc' = pc + 1
    /\ result' = IF pc = 17 /\ outVal[OrG] # "Unset"
                 THEN <<outVal[Xor2], outVal[OrG], cost[AdderCircuit]>>
                 ELSE result
    /\ UNCHANGED args

\* A call full_adder(a, b, ci) on fresh classes, about to run its first line.
InitAdder ==
    /\ kind = [g \in Slots |-> "none"]
    /\ inVal = NoSignals
    /\ outVal = [g \in Slots |-> "Unset"]
    /\ conn = [g \in Slots |-> <<>>]
    /\ fault = "none"
    /\ op = NoOp
    /\ trace = <<>>
    /\ costClass = None
    /\ nameClass = None
    /\ nextAttr = [g \in Slots |-> None]
    /\ head = [c \in Circuits |-> None]
    /\ cost = [c \in Circuits |-> None]
    /\ addLog = [c \in Circuits |-> <<>>]
    /\ pc = 1
    /\ args \in PyBools \X PyBools \X PyBools
    /\ result = <<"Unset", "Unset", None>>

NextAdder == AdderStep

\* One call of full_adder.
SpecAdder == InitAdder /\ [][NextAdder]_vars

\* ------------------------------------------------------------------ claims
IsTrue(v) == v = "True"
Bool(b) == IF b THEN "True" ELSE "False"

\* every Input the gate owns has been written
AllInputsSet(g) == \A k \in Ports(kind[g]) : inVal[g][k] # "Unset"

\* The reference truth tables of section 8.
Reference(k, x, y) ==
    CASE k = "NOT" -> ~x
      [] k = "AND" -> x /\ y
      [] k = "OR"  -> x \/ y
      [] k = "XOR" -> x # y

OutputMatches(g) ==
    outVal[g] = Bool(Reference(kind[g], IsTrue(inVal[g][0]), IsTrue(inVal[g][1])))

\* the writes of the last call to input k of gate g / to any input of g / to g's output
InWrites(t, g, k) == SelectSeq(t, LAMBDA e : e[1] = "in" /\ e[2] = g /\ e[3] = k)
GateInWrites(t, g) == SelectSeq(t, LAMBDA e : e[1] = "in" /\ e[2] = g)
OutWrites(t, g) == SelectSeq(t, LAMBDA e : e[1] = "out" /\ e[2] = g)

\* C1: when a client write to a gate's input returns and every input of that
\* gate has been written, the gate's output is the reference function of its
\* inputs: NOT x, x AND y, x OR y, x XOR y.
C1_TruthTables ==
    (fault = "none" /\ op.type = "write" /\ AllInputsSet(op.gate)) => OutputMatches(op.gate)

\* C1 witness: an unwired AND gate whose input0 was written last, both inputs true.
C1_Witness ==
    /\ fault = "none" /\ op.type = "write" /\ op.port = 0 /\ kind[op.gate] = "AND"
    /\ TotalConns = 0
    /\ inVal[op.gate] = [k \in {0, 1} |-> "True"]
    /\ outVal[op.gate] = "True"

\* C2: a binary gate with an input that was never written has an output that
\* was never written.
C2_OneInputNoOutput ==
    \A g \in Constructed :
        (IsBinary(kind[g]) /\ ~AllInputsSet(g)) => outVal[g] = "Unset"

\* C3: without feedback loops, whenever a top-level call has returned, every
\* gate whose inputs are all defined has the output its function gives for the
\* current values of its inputs.
C3_NoStaleOutput ==
    (fault = "none" /\ Acyclic) => \A g \in Constructed : AllInputsSet(g) => OutputMatches(g)

\* C3 witness: one output feeds both inputs of an XOR gate, and the last client
\* write rewrote the XOR's output twice (first from one new and one old input).
C3_Witness ==
    /\ fault = "none" /\ op.type = "write"
    /\ \E g, h \in Constructed :
          /\ g # h /\ kind[h] = "XOR"
          /\ conn[g] = << <<h, 0>>, <<h, 1>> >>
          /\ Len(OutWrites(trace, h)) = 2
          /\ OutWrites(trace, h)[1][4] = "True"
          /\ outVal[h] = "False"

\* what a connect step did to the connected input
ConnectPushesOnce ==
    LET src == op'.src
        g == op'.gate
        k == op'.port
    IN  IF outVal[src] = "Unset"
        THEN InWrites(trace', g, k) = <<>> /\ inVal'[g][k] = inVal[g][k]
        ELSE /\ InWrites(trace', g, k) = << <<"in", g, k, outVal[src]>> >>
             /\ Len(GateInWrites(trace', g)) = 1

\* C4 as stated: every connect of a new input writes the output's defined value
\* to that input exactly once during the call, with one evaluate of its owner;
\* a connect on an Unset output writes nothing to the input.
C4_ConnectPushesOnce ==
    [][(op'.type = "connect" /\ ~op'.dup) => ConnectPushesOnce]_vars

\* C4 amended: the same, for connects after which the input's owner is on no
\* feedback loop.
C4_ConnectPushesOnceNoLoop ==
    [][(op'.type = "connect" /\ ~op'.dup /\ ~OnLoop(conn', op'.gate)) => ConnectPushesOnce]_vars

\* C4 witness: a connect of a new input to a defined output has returned; the
\* input was written once, with the output's value, and its owner wrote its output.
C4_Witness ==
    /\ fault = "none" /\ op.type = "connect" /\ ~op.dup
    /\ ~OnLoop(conn, op.gate)
    /\ InWrites(trace, op.gate, op.port) = << <<"in", op.gate, op.port, outVal[op.src]>> >>
    /\ Len(OutWrites(trace, op.gate)) = 1

\* C5 as stated: connecting an input that is already connected changes nothing:
\* not the connection list, no signal value, and no gate is evaluated.
C5_ReconnectNoOp ==
    [][(op'.type = "connect" /\ op'.dup) =>
          (conn' = conn /\ inVal' = inVal /\ outVal' = outVal /\ trace' = <<>>)]_vars

\* C5 amended: connecting an input that is already connected leaves the
\* connection list as it is; on an Unset output nothing else happens either; on
\* a defined output the value is written to the input again, first thing in the
\* call, and the input's owner is evaluated again.
C5_ReconnectRepushes ==
    [][(op'.type = "connect" /\ op'.dup) =>
          /\ conn' = conn
          /\ IF outVal[op'.src] = "Unset"
             THEN inVal' = inVal /\ outVal' = outVal /\ trace' = <<>>
             ELSE /\ trace' # <<>>
                  /\ trace'[1] = <<"in", op'.gate, op'.port, outVal[op'.src]>>]_vars

\* C5 witness: a repeated connect on a defined output has returned, and the
\* input's owner wrote its output during it.
C5_Witness ==
    /\ fault = "none" /\ op.type = "connect" /\ op.dup
    /\ Len(InWrites(trace, op.gate, op.port)) = 1
    /\ Len(OutWrites(trace, op.gate)) = 1
    /\ Len(conn[op.src]) = 1

\* gate2's input is connected to gate1's output and to no other output
InSeries(g1, g2) ==
    /\ g1 # g2 /\ kind[g1] = "NOT" /\ kind[g2] = "NOT"
    /\ Connected(conn, g1, g2, 0)
    /\ \A m \in Slots \ {g1} : ~Connected(conn, m, g2, 0)

\* C6: two NOT gates in series: when a client write of x to gate1's input has
\* returned, gate2's output is x and gate2's input is gate1's output.
C6_DoubleNegation ==
    (fault = "none" /\ op.type = "write") =>
        \A g2 \in Constructed :
            InSeries(op.gate, g2) =>
                (outVal[g2] = trace[1][4] /\ inVal[g2][0] = outVal[op.gate])

\* C6 witness: False was written to gate1's input and has reached gate2's output.
C6_Witness ==
    /\ fault = "none" /\ op.type = "write"
    /\ trace[1][4] = "False"
    /\ \E g2 \in Constructed :
          /\ InSeries(op.gate, g2)
          /\ Len(OutWrites(trace, g2)) = 1
          /\ outVal[g2] = "False"

\* the cost section 3 gives a gate of class k
SpecCost(k) == IF IsUnary(k) THEN 40 ELSE 90

RECURSIVE SumCost(_, _)
SumCost(log, n) == IF n = 0 THEN 0 ELSE SpecCost(kind[log[n]]) + SumCost(log, n - 1)

\* C7: when a call has returned, the cost of a circuit that is not empty is the
\* sum, over the adds made to it, of the added gate's cost: 40 for a unary
\* gate, 90 for a binary gate.
C7_CostIsSum ==
    fault = "none" =>
        \A c \in Circuits :
            head[c] # None => cost[c] = SumCost(addLog[c], Len(addLog[c]))

\* C8: reading the cost of a gate gives 40 for a unary and 90 for a binary
\* gate, whatever was constructed after it.
C8_CostFixed ==
    \A g \in Constructed : GateCost(g, costClass) = SpecCost(kind[g])

\* how many times gate g was passed to add, by the log
Adds(log, g) == Cardinality({n \in 1..Len(log) : log[n] = g})

\* C10: an add of a gate that was added to the circuit once before returns, and the
\* circuit's cost has grown by what reading the gate's cost gives.
C10_SecondAddCounts ==
    [][(op'.type = "add" /\ Adds(addLog[op'.circ], op'.gate) = 1) =>
          (fault' = "none" /\ cost'[op'.circ] = cost[op'.circ] + GateCost(op'.gate, costClass))]_vars

\* at least two of the three
Majority(x, y, z) == (x /\ y) \/ (x /\ z) \/ (y /\ z)

\* C9: full_adder(a, b, ci) returns without error a sum signal that reads
\* a xor b xor ci, a carry that is the majority of a, b, ci, and the cost 450.
C9_FullAdder ==
    pc = AdderDone =>
        LET a == IsTrue(args[1])
            b == IsTrue(args[2])
            ci == IsTrue(args[3])
        IN  /\ fault = "none"
            /\ result[1] = Bool((a # b) # ci)
            /\ result[2] = Bool(Majority(a, b, ci))
            /\ result[3] = 450

\* C9 witness: full_adder(True, True, False) has returned sum False, carry True.
C9_Witness ==
    /\ pc = AdderDone
    /\ args = <<"True", "True", "False">>
    /\ result = <<"False", "True", 450>>
\* The gates of a circuit as a reader finds them: from entry e along next, at
\* most n of them.
RECURSIVE Chain(_, _, _)
Chain(nx, e, n) ==
    IF e = None \/ n = 0 THEN <<>>
    ELSE <<e>> \o Chain(nx, GateNext(nx, e), n - 1)

\* C11: when a call has returned, the gates of every circuit, read from head
\* along next, are the gates passed to its add, in call order, one per add.
C11_SequenceIsAddLog ==
    fault = "none" =>
        \A c \in Circuits : Chain(nextAttr, head[c], Len(addLog[c]) + 1) = addLog[c]
\* C12: a direct call of evaluate on any gate returns without an error, and
\* with an input of the gate Unset it writes no output.
C12_EvaluateNeverRaises ==
    [][op'.type = "evaluate" =>
          /\ fault' = "none"
          /\ ~AllInputsSet(op'.gate) => OutWrites(trace', op'.gate) = <<>>]_vars
\* Reading a trace t as a depth-first cascade over wiring cn.  CascadeEnd is the
\* position after the cascade of the input write at position q: the write
\* itself, then, if its owner wrote its output, that write and the owner's
\* fan-out.  FanoutEnd is the position after the fan-out of output h from its
\* connection idx on, starting at position q: each connected input in
\* connection order written and followed by its whole cascade.
\* Both are 0 when t does not read that way.
RECURSIVE CascadeEnd(_, _, _)
RECURSIVE FanoutEnd(_, _, _, _, _)
CascadeEnd(t, cn, q) ==
    IF q = 0 \/ q > Len(t) THEN 0
    ELSE IF t[q][1] # "in" THEN 0
    ELSE IF q < Len(t) /\ t[q + 1][1] = "out" /\ t[q + 1][2] = t[q][2]
         THEN FanoutEnd(t, cn, t[q][2], 1, q + 2)
         ELSE q + 1

FanoutEnd(t, cn, h, idx, q) ==
    IF q = 0 THEN 0
    ELSE IF idx > Len(cn[h]) THEN q
    ELSE IF q > Len(t) THEN 0
    ELSE IF <<t[q][1], t[q][2], t[q][3]>> # <<"in", cn[h][idx][1], cn[h][idx][2]>> THEN 0
    ELSE FanoutEnd(t, cn, h, idx + 1, CascadeEnd(t, cn, q))

\* the positions of the last call's writes to outputs with several connections
FanoutWrites == {p \in 1..Len(trace) : trace[p][1] = "out" /\ Len(conn[trace[p][2]]) >= 2}

\* C13: when a call has returned, every write it made to an output with
\* several connected inputs was followed by the writes of those inputs in the
\* order of their connection, each followed by its whole cascade before the
\* next input was written.
C13_FanoutInConnectionOrder ==
    fault = "none" =>
        \A p \in FanoutWrites : FanoutEnd(trace, conn, trace[p][2], 1, p + 1) # 0

\* C13 witness: a client write made gate g write its output, which is connected
\* to input1 and then to input0 of a XOR gate h; h wrote its output after each
\* of the two input writes, first True from the new input1 and the old input0.
C13_Witness ==
    /\ fault = "none" /\ op.type = "write"
    /\ \E h \in Constructed :
          /\ kind[h] = "XOR"
          /\ conn[op.gate] = << <<h, 1>>, <<h, 0>> >>
          /\ Len(trace) = 6
          /\ trace[2][1] = "out" /\ trace[2][2] = op.gate
          /\ trace[3][1] = "in" /\ trace[3][3] = 1
          /\ trace[4] = <<"out", h, 0, "True">>
          /\ trace[5][1] = "in" /\ trace[5][3] = 0
          /\ trace[6] = <<"out", h, 0, "False">>
LoopGates(g) ==
    {m \in Constructed : /\ OnLoop(conn, g)
                         /\ Reaches(conn, g, m, Cardinality(Slots))
                         /\ Reaches(conn, m, g, Cardinality(Slots))}

\* every binary gate on a loop through g has its inputs defined, the input
\* <<g, k>> aside
LoopInputsDefined(g, k) ==
    \A m \in LoopGates(g) :
        IsBinary(kind[m]) =>
            \A j \in {0, 1} : inVal[m][j] # "Unset" \/ <<m, j>> = <<g, k>>

\* C15 as stated: a client write to an input of a gate on a feedback loop never
\* returns: it recurses until RecursionError, whatever the gate's class and
\* whatever the other inputs of the loop's gates hold.
C15_LoopWriteNeverReturns ==
    [][(op'.type = "write" /\ OnLoop(conn, op'.gate)) => fault' = "RecursionError"]_vars

\* C15 amended: a client write to an input of a gate on a feedback loop recurses
\* until RecursionError when every binary gate on the loop has its inputs
\* defined, the written input aside.
C15_LoopWriteRecursesWhenDefined ==
    [][(op'.type = "write" /\ OnLoop(conn, op'.gate) /\ LoopInputsDefined(op'.gate, op'.port))
          => fault' = "RecursionError"]_vars

\* C15 witness: a client write to the input of a binary gate that is connected
\* to the gate's own output has ended in RecursionError; the gate's other input
\* was defined, and each round wrote the same value to the output.
C15_Witness ==
    /\ fault = "RecursionError" /\ op.type = "write"
    /\ IsBinary(kind[op.gate])
    /\ TotalConns = 1 /\ Connected(conn, op.gate, op.gate, op.port)
    /\ inVal[op.gate][1 - op.port] # "Unset"
    /\ Len(OutWrites(trace, op.gate)) >= 2
    /\ \A n \in 1..Len(OutWrites(trace, op.gate)) : OutWrites(trace, op.gate)[n][4] = outVal[op.gate]
\* C16: every call of Circuit.add returns, whatever was added before to any
\* circuit: the walk to the last entry ends.
C16_AddTerminates == fault # "hang"
\* C17: reading the name of a gate gives the identifier passed to that gate's
\* own constructor (here its number), whatever was constructed after it.
C17_NameIsOwn == \A g \in Constructed : GateName(g, nameClass) = g
\* the gates whose outputs lie downstream of a write to an input of gate g: g
\* itself and every gate reached from g's output through connections
Downstream(g) == {m \in Slots : Reaches(conn, g, m, Cardinality(Slots))}

\* what a write step may change: no input but the written one and the inputs
\* connected to outputs downstream of the gate, no output but those downstream
\* of the gate, no connection list, no gate, no circuit's cost or membership
WriteFrame ==
    /\ \A m \in Slots : \A j \in {0, 1} :
          inVal'[m][j] # inVal[m][j] =>
              \/ <<m, j>> = <<op'.gate, op'.port>>
              \/ \E a \in Downstream(op'.gate) : Connected(conn, a, m, j)
    /\ \A m \in Slots : outVal'[m] # outVal[m] => m \in Downstream(op'.gate)
    /\ conn' = conn
    /\ kind' = kind
    /\ cost' = cost /\ head' = head /\ nextAttr' = nextAttr /\ addLog' = addLog

\* the other input of the written gate is as it was
OtherInputKept ==
    \A j \in Ports(kind[op'.gate]) \ {op'.port} : inVal'[op'.gate][j] = inVal[op'.gate][j]

\* C18 as stated: a client write to an input of gate g changes only that input,
\* g's output and the signals of gates downstream of g's output; g's other
\* input, connection lists and circuits are unchanged.
C18_WriteFrameOtherInput ==
    [][op'.type = "write" => (WriteFrame /\ OtherInputKept)]_vars

\* C18 amended: a client write to an input of gate g changes only that input,
\* g's output and the signals of gates downstream of g's output; connection
\* lists and circuits are unchanged; g's other input is unchanged when g is on
\* no feedback loop.
C18_WriteFrame ==
    [][op'.type = "write" =>
          (WriteFrame /\ (~OnLoop(conn, op'.gate) => OtherInputKept))]_vars

\* C18 witness: a client write to one input of a binary gate has returned; the
\* gate's other input holds a different value, the gate feeds a second gate,
\* and both gates wrote their outputs during the call.
C18_Witness ==
    /\ fault = "none" /\ op.type = "write"
    /\ IsBinary(kind[op.gate])
    /\ inVal[op.gate][1 - op.port] # "Unset"
    /\ inVal[op.gate][1 - op.port] # inVal[op.gate][op.port]
    /\ GateInWrites(trace, op.gate) = << <<"in", op.gate, op.port, inVal[op.gate][op.port]>> >>
    /\ \E h \in Constructed \ {op.gate} :
          /\ Feeds(conn, op.gate, h)
          /\ ~Feeds(conn, h, op.gate)
          /\ OutWrites(trace, h) # <<>>
====
